---- MODULE Spec2Model ----
(***************************************************************************)
(* Model of the ETL data-quality and alignment engine:                     *)
(*   data_cleaner.py  - detect_missing_values, detect_inconsistencies,     *)
(*                      clean_with_forward_fill, remove_invalid_rows       *)
(*   data_unifier.py  - build_master_calendar, align_assets_to_calendar,   *)
(*                      build_master_dataset                               *)
(*   etl_pipeline.py  - run_etl (lines 98-127)                             *)
(*   data_fetcher.py  - _do_http_get_with_retry, fetch_asset_data,         *)
(*                      fetch_multiple_assets                              *)
(*                                                                         *)
(* A row is a record with the six keys Date, Open, High, Low, Close and    *)
(* Volume.  Dates "YYYY-MM-DD" are modelled by the naturals 1..MaxDate     *)
(* (same order as the lexicographic order of the strings); prices and      *)
(* volumes are naturals.  Python's None is the value None below, distinct  *)
(* from every date, price and volume.  Python lists are sequences; list    *)
(* indices stay 0-based wherever the code returns them.  A Python dict is  *)
(* a record [keys, val]: keys is the insertion order, val the mapping.     *)
(* An exception message is the list of its words, and str.lower() acts on  *)
(* each word; each call of _do_http_get is one step whose outcome is any   *)
(* body or any exception the function can raise.                           *)
(***************************************************************************)
EXTENDS Integers, Sequences, FiniteSets, TLC

\* Python's None.
None == -1

\* ---------------------------------------------------------------------
\* Bounds of the model
\* ---------------------------------------------------------------------
\* Longest series handed to the data_cleaner functions.
MaxLen == 3
\* Prices are 1..MaxPrice.
MaxPrice == 2
\* Dates of the rows fetched by run_etl are 1..MaxDate.
MaxDate == 3
\* Total number of rows fetched by run_etl, over all symbols.
MaxFetched == 3
\* Dates of the rows handed to the data_unifier functions are 1..MaxUnifierDate.
MaxUnifierDate == 2
\* Total number of rows in a universe handed to the data_unifier functions.
MaxRows == 3
\* Open, High, Low and Close of the rows given to detect_inconsistencies alone.
MaxLevel == 3
\* max_attempts of _do_http_get_with_retry called alone.
MaxAttempts == 3
\* Symbols given to fetch_multiple_assets.
MaxSymbols == 2

Prices == 1..MaxPrice
Dates == 1..MaxDate
UnifierDates == 1..MaxUnifierDate
Nullable(S) == S \cup {None}

\* A row as built by _parse_chart_json.
Row(d, o, h, l, c, v) ==
    [Date |-> d, Open |-> o, High |-> h, Low |-> l, Close |-> c, Volume |-> v]

\* Sequences over S of length at most n.
SeqUpTo(S, n) == UNION {[1..k -> S] : k \in 0..n}

\* ---------------------------------------------------------------------
\* Python dict: insertion-ordered mapping
\* ---------------------------------------------------------------------
EmptyDict == [keys |-> <<>>, val |-> <<>>]

HasKey(d, k) == k \in DOMAIN d.val

\* d[k] = v
DictSet(d, k, v) ==
    [keys |-> IF HasKey(d, k) THEN d.keys ELSE Append(d.keys, k),
     val  |-> [x \in DOMAIN d.val \cup {k} |-> IF x = k THEN v ELSE d.val[x]]]

\* ---------------------------------------------------------------------
\* data_cleaner.py
\* ---------------------------------------------------------------------
NUMERIC_KEYS == <<"Open", "High", "Low", "Close", "Volume">>

\* detect_missing_keys without the seen_positions test: an index is appended
\* once per missing cell.
RECURSIVE detect_missing_keys_unseen(_, _, _, _)
detect_missing_keys_unseen(row, i, k, acc) ==
    IF k > Len(NUMERIC_KEYS) THEN acc
    ELSE IF row[NUMERIC_KEYS[k]] = None
         THEN detect_missing_keys_unseen(row, i, k + 1,
                [count |-> acc.count + 1,
                 positions |-> Append(acc.positions, i),
                 seen_positions |-> acc.seen_positions \cup {i}])
         ELSE detect_missing_keys_unseen(row, i, k + 1, acc)

\* Inner loop of detect_missing_values over the keys of row i (0-based i);
\* acc = [count, positions, seen_positions].
RECURSIVE detect_missing_keys(_, _, _, _)
detect_missing_keys(row, i, k, acc) ==
    IF k > Len(NUMERIC_KEYS) THEN acc
    ELSE IF row[NUMERIC_KEYS[k]] = None
         THEN detect_missing_keys(row, i, k + 1,
                [count |-> acc.count + 1,
                 positions |-> IF i \notin acc.seen_positions
                               THEN Append(acc.positions, i)
                               ELSE acc.positions,
                 seen_positions |-> acc.seen_positions \cup {i}])
         ELSE detect_missing_keys(row, i, k + 1, acc)

\* Outer loop of detect_missing_values, i = 0..len-1.
RECURSIVE detect_missing_rows(_, _, _)
detect_missing_rows(asset_data, i, acc) ==
    IF i >= Len(asset_data) THEN acc
    ELSE detect_missing_rows(asset_data, i + 1,
                             detect_missing_keys(asset_data[i + 1], i, 1, acc))

\* Returns the pair (count, positions).
detect_missing_values(asset_data) ==
    IF asset_data = <<>> THEN <<0, <<>>>>
    ELSE LET acc == detect_missing_rows(asset_data, 0,
                      [count |-> 0, positions |-> <<>>, seen_positions |-> {}])
         IN  <<acc.count, acc.positions>>

\* One anomaly: index, type and a copy of the row.
Anomaly(i, type, row) == [index |-> i, type |-> type, row |-> row]

\* detect_inconsistencies_row whose first check is high <= low: a row with
\* High equal to Low is reported as High_less_than_Low.
detect_inconsistencies_row_le(i, row) ==
    LET low == row.Low
        high == row.High
        open_ == row.Open
        close == row.Close
    IN  IF low = None \/ high = None THEN <<>>
        ELSE (IF high <= low
              THEN <<Anomaly(i, "High_less_than_Low", row)>> ELSE <<>>)
          \o (IF close # None /\ (close < low \/ close > high)
              THEN <<Anomaly(i, "Close_outside_Low_High_range", row)>> ELSE <<>>)
          \o (IF open_ # None /\ (open_ < low \/ open_ > high)
              THEN <<Anomaly(i, "Open_outside_Low_High_range", row)>> ELSE <<>>)

\* detect_inconsistencies_row whose range checks are closed at the wrong side:
\* a Close or Open equal to Low or to High counts as outside the range.
detect_inconsistencies_row_strict(i, row) ==
    LET low == row.Low
        high == row.High
        open_ == row.Open
        close == row.Close
    IN  IF low = None \/ high = None THEN <<>>
        ELSE (IF high < low
              THEN <<Anomaly(i, "High_less_than_Low", row)>> ELSE <<>>)
          \o (IF close # None /\ (close <= low \/ close >= high)
              THEN <<Anomaly(i, "Close_outside_Low_High_range", row)>> ELSE <<>>)
          \o (IF open_ # None /\ (open_ <= low \/ open_ >= high)
              THEN <<Anomaly(i, "Open_outside_Low_High_range", row)>> ELSE <<>>)

\* detect_inconsistencies_row that goes on to the next row after reporting
\* High_less_than_Low, as if the three checks excluded one another.
detect_inconsistencies_row_exclusive(i, row) ==
    LET low == row.Low
        high == row.High
        open_ == row.Open
        close == row.Close
    IN  IF low = None \/ high = None THEN <<>>
        ELSE IF high < low
        THEN <<Anomaly(i, "High_less_than_Low", row)>>
        ELSE (IF close # None /\ (close < low \/ close > high)
              THEN <<Anomaly(i, "Close_outside_Low_High_range", row)>> ELSE <<>>)
          \o (IF open_ # None /\ (open_ < low \/ open_ > high)
              THEN <<Anomaly(i, "Open_outside_Low_High_range", row)>> ELSE <<>>)

\* The anomalies the loop body of detect_inconsistencies appends for row i.
detect_inconsistencies_row(i, row) ==
    LET low == row.Low
        high == row.High
        open_ == row.Open
        close == row.Close
    IN  IF low = None \/ high = None THEN <<>>
        ELSE (IF high < low
              THEN <<Anomaly(i, "High_less_than_Low", row)>> ELSE <<>>)
          \o (IF close # None /\ (close < low \/ close > high)
              THEN <<Anomaly(i, "Close_outside_Low_High_range", row)>> ELSE <<>>)
          \o (IF open_ # None /\ (open_ < low \/ open_ > high)
              THEN <<Anomaly(i, "Open_outside_Low_High_range", row)>> ELSE <<>>)

RECURSIVE detect_inconsistencies_loop(_, _, _)
detect_inconsistencies_loop(asset_data, i, anomalies) ==
    IF i >= Len(asset_data) THEN anomalies
    ELSE detect_inconsistencies_loop(asset_data, i + 1,
            anomalies \o detect_inconsistencies_row(i, asset_data[i + 1]))

detect_inconsistencies(asset_data) ==
    detect_inconsistencies_loop(asset_data, 0, <<>>)

\* forward_fill_loop that sets last_valid only once: a gap is filled with the
\* first valid Close of the list, not the nearest preceding one.
RECURSIVE forward_fill_loop_first(_, _, _)
forward_fill_loop_first(asset_data, i, last_valid) ==
    IF i >= Len(asset_data) THEN asset_data
    ELSE LET row == asset_data[i + 1] IN
         IF row.Close # None
         THEN forward_fill_loop_first(asset_data, i + 1,
                 IF last_valid = None THEN row.Close ELSE last_valid)
         ELSE IF last_valid # None
              THEN forward_fill_loop_first(
                     [asset_data EXCEPT ![i + 1].Close = last_valid],
                     i + 1, last_valid)
              ELSE forward_fill_loop_first(asset_data, i + 1, last_valid)

\* forward_fill_loop that writes last_valid into every row once it is set
\* (if instead of elif) and updates last_valid from the row's own Close after.
RECURSIVE forward_fill_loop_lag(_, _, _)
forward_fill_loop_lag(asset_data, i, last_valid) ==
    IF i >= Len(asset_data) THEN asset_data
    ELSE LET row == asset_data[i + 1]
             next_valid == IF row.Close # None THEN row.Close ELSE last_valid
         IN  IF last_valid # None
             THEN forward_fill_loop_lag(
                    [asset_data EXCEPT ![i + 1].Close = last_valid],
                    i + 1, next_valid)
             ELSE forward_fill_loop_lag(asset_data, i + 1, next_valid)

\* Loop of clean_with_forward_fill: asset_data is rewritten in place.
RECURSIVE forward_fill_loop(_, _, _)
forward_fill_loop(asset_data, i, last_valid) ==
    IF i >= Len(asset_data) THEN asset_data
    ELSE LET row == asset_data[i + 1] IN
         IF row.Close # None
         THEN forward_fill_loop(asset_data, i + 1, row.Close)
         ELSE IF last_valid # None
              THEN forward_fill_loop(
                     [asset_data EXCEPT ![i + 1].Close = last_valid],
                     i + 1, last_valid)
              ELSE forward_fill_loop(asset_data, i + 1, last_valid)

\* The list after the call (the same list object is returned).
clean_with_forward_fill(asset_data) ==
    IF asset_data = <<>> THEN asset_data
    ELSE forward_fill_loop(asset_data, 0, None)

\* remove_invalid_loop that also drops a row when Open, High or Low is None.
RECURSIVE remove_invalid_loop_ohlc(_, _, _)
remove_invalid_loop_ohlc(asset_data, i, result) ==
    IF i >= Len(asset_data) THEN result
    ELSE LET row == asset_data[i + 1] IN
         remove_invalid_loop_ohlc(asset_data, i + 1,
            IF row.Close # None /\ row.Open # None /\ row.High # None
               /\ row.Low # None
            THEN Append(result, row) ELSE result)

RECURSIVE remove_invalid_loop(_, _, _)
remove_invalid_loop(asset_data, i, result) ==
    IF i >= Len(asset_data) THEN result
    ELSE LET row == asset_data[i + 1] IN
         remove_invalid_loop(asset_data, i + 1,
            IF row.Close # None THEN Append(result, row) ELSE result)

\* The new list returned; asset_data itself is not written.
remove_invalid_rows(asset_data) ==
    remove_invalid_loop(asset_data, 0, <<>>)

\* ---------------------------------------------------------------------
\* data_unifier.py
\* ---------------------------------------------------------------------
\* sorted() of a set of dates: ascending, one entry per element.
RECURSIVE sorted_dates(_)
sorted_dates(S) ==
    IF S = {} THEN <<>>
    ELSE LET m == CHOOSE x \in S : \A y \in S : x <= y
         IN  <<m>> \o sorted_dates(S \ {m})

\* Inner loop of build_master_calendar over the rows of one symbol.
RECURSIVE calendar_rows(_, _, _)
calendar_rows(rows, j, all_dates) ==
    IF j >= Len(rows) THEN all_dates
    ELSE LET d == rows[j + 1].Date IN
         calendar_rows(rows, j + 1,
                       IF d # None THEN all_dates \cup {d} ELSE all_dates)

\* calendar_symbols with all_dates initialised inside the loop over the
\* symbols: only the dates of the last symbol survive.
RECURSIVE calendar_symbols_reset(_, _, _)
calendar_symbols_reset(all_assets_data, s, all_dates) ==
    IF s > Len(all_assets_data.keys) THEN all_dates
    ELSE calendar_symbols_reset(all_assets_data, s + 1,
            calendar_rows(all_assets_data.val[all_assets_data.keys[s]], 0, {}))

\* Outer loop of build_master_calendar over the symbols, in dict order.
RECURSIVE calendar_symbols(_, _, _)
calendar_symbols(all_assets_data, s, all_dates) ==
    IF s > Len(all_assets_data.keys) THEN all_dates
    ELSE calendar_symbols(all_assets_data, s + 1,
            calendar_rows(all_assets_data.val[all_assets_data.keys[s]], 0,
                          all_dates))

build_master_calendar(all_assets_data) ==
    sorted_dates(calendar_symbols(all_assets_data, 1, {}))

\* date_to_row_loop that keeps the first row of a date instead of the last.
RECURSIVE date_to_row_loop_first(_, _, _)
date_to_row_loop_first(rows, j, date_to_row) ==
    IF j >= Len(rows) THEN date_to_row
    ELSE LET row == rows[j + 1]
             d == row.Date
         IN  date_to_row_loop_first(rows, j + 1,
               IF d # None /\ d \notin DOMAIN date_to_row
               THEN [x \in DOMAIN date_to_row \cup {d} |->
                        IF x = d THEN row ELSE date_to_row[x]]
               ELSE date_to_row)

\* First loop of align_assets_to_calendar: date -> copy of the row, a later
\* row overwriting an earlier one with the same date.
RECURSIVE date_to_row_loop(_, _, _)
date_to_row_loop(rows, j, date_to_row) ==
    IF j >= Len(rows) THEN date_to_row
    ELSE LET row == rows[j + 1]
             d == row.Date
         IN  date_to_row_loop(rows, j + 1,
               IF d # None
               THEN [x \in DOMAIN date_to_row \cup {d} |->
                        IF x = d THEN row ELSE date_to_row[x]]
               ELSE date_to_row)

\* aligned_list_loop without the else branch: a date the asset lacks gets no
\* placeholder row.
RECURSIVE aligned_list_loop_skip(_, _, _, _)
aligned_list_loop_skip(date_to_row, master_calendar, i, aligned_list) ==
    IF i >= Len(master_calendar) THEN aligned_list
    ELSE LET date == master_calendar[i + 1] IN
         aligned_list_loop_skip(date_to_row, master_calendar, i + 1,
            IF date \in DOMAIN date_to_row
            THEN Append(aligned_list, date_to_row[date])
            ELSE aligned_list)

\* Second loop of align_assets_to_calendar over the calendar.
RECURSIVE aligned_list_loop(_, _, _, _)
aligned_list_loop(date_to_row, master_calendar, i, aligned_list) ==
    IF i >= Len(master_calendar) THEN aligned_list
    ELSE LET date == master_calendar[i + 1] IN
         aligned_list_loop(date_to_row, master_calendar, i + 1,
            Append(aligned_list,
                   IF date \in DOMAIN date_to_row
                   THEN date_to_row[date]
                   ELSE Row(date, None, None, None, None, None)))

\* Loop of align_assets_to_calendar over the symbols, in dict order.
RECURSIVE align_symbols(_, _, _, _)
align_symbols(all_assets_data, master_calendar, s, aligned) ==
    IF s > Len(all_assets_data.keys) THEN aligned
    ELSE LET symbol == all_assets_data.keys[s]
             rows == all_assets_data.val[symbol]
             date_to_row == date_to_row_loop(rows, 0, <<>>)
         IN  align_symbols(all_assets_data, master_calendar, s + 1,
               DictSet(aligned, symbol,
                       aligned_list_loop(date_to_row, master_calendar, 0, <<>>)))

align_assets_to_calendar(all_assets_data, master_calendar) ==
    align_symbols(all_assets_data, master_calendar, 1, EmptyDict)

\* The symbols of the model, in the lexicographic order of their strings.
ASSET_SYMBOLS == <<"A", "B">>

Range(q) == {q[i] : i \in DOMAIN q}

\* sorted() of a collection of symbols.
sorted_symbols(K) == SelectSeq(ASSET_SYMBOLS, LAMBDA x : x \in K)

\* master_row_loop that writes every symbol's Close under the one key "Close".
RECURSIVE master_row_loop_key(_, _, _, _, _)
master_row_loop_key(aligned_data, symbols, i, s, row) ==
    IF s > Len(symbols) THEN row
    ELSE LET symbol == symbols[s]
             k == "Close"
             v == aligned_data.val[symbol][i + 1].Close
         IN  master_row_loop_key(aligned_data, symbols, i, s + 1,
               [x \in DOMAIN row \cup {k} |-> IF x = k THEN v ELSE row[x]])

\* Inner loop of build_master_dataset: one "<symbol>_Close" key per symbol.
RECURSIVE master_row_loop(_, _, _, _, _)
master_row_loop(aligned_data, symbols, i, s, row) ==
    IF s > Len(symbols) THEN row
    ELSE LET symbol == symbols[s]
             k == symbol \o "_Close"
             v == aligned_data.val[symbol][i + 1].Close
         IN  master_row_loop(aligned_data, symbols, i, s + 1,
               [x \in DOMAIN row \cup {k} |-> IF x = k THEN v ELSE row[x]])

\* Outer loop of build_master_dataset over the row indices 0..n-1.
RECURSIVE master_loop(_, _, _, _, _)
master_loop(aligned_data, symbols, n, i, master) ==
    IF i >= n THEN master
    ELSE master_loop(aligned_data, symbols, n, i + 1,
           Append(master,
                  master_row_loop(aligned_data, symbols, i, 1,
                     [x \in {"Date"} |->
                        aligned_data.val[symbols[1]][i + 1].Date])))

build_master_dataset(aligned_data) ==
    LET symbols == sorted_symbols(Range(aligned_data.keys))
    IN  IF symbols = <<>> THEN <<>>
        ELSE master_loop(aligned_data, symbols,
                         Len(aligned_data.val[symbols[1]]), 0, <<>>)

\* ---------------------------------------------------------------------
\* data_fetcher.py
\* ---------------------------------------------------------------------
\* An exception is its type and its message; a message is the list of its
\* words, the URL being the one word "u".  NoError stands for Python's None
\* where an exception is expected.
Exception(type, msg) == [type |-> type, msg |-> msg]

NoError == Exception("None", <<>>)

\* The RuntimeErrors _do_http_get raises: a status other than 200, HTTP
\* errors 404 and 504, a URL error and an OS error of a timed-out socket.
HttpRuntimeErrors ==
    { Exception("RuntimeError", <<"HTTP", "status", "204", "for", "URL", "u">>),
      Exception("RuntimeError",
                <<"HTTP", "error", "404:", "Not", "Found", "for", "URL", "u">>),
      Exception("RuntimeError",
                <<"HTTP", "error", "504:", "Gateway", "Timeout",
                  "for", "URL", "u">>),
      Exception("RuntimeError",
                <<"URL", "error:", "timed", "out", "for", "URL", "u">>),
      Exception("RuntimeError",
                <<"Network/OS", "error:", "The", "read", "operation",
                  "timed", "out", "for", "URL", "u">>) }

\* An exception of resp.read() that no except clause of _do_http_get turns
\* into a RuntimeError.
HttpOtherErrors ==
    { Exception("IncompleteRead", <<"IncompleteRead(0", "bytes", "read)">>) }

\* The bodies a successful GET returns: a chart with rows, a chart with an
\* empty timestamp list, and bytes that are not JSON.
Bodies == {"rows", "no_rows", "bad_json"}

Return(value) == [kind |-> "return", value |-> value, err |-> NoError]

Raise(e) == [kind |-> "raise", value |-> <<>>, err |-> e]

Pending == [kind |-> "none", value |-> <<>>, err |-> NoError]

\* What one call of _do_http_get can do.
HttpOutcomes ==
    { [kind |-> "return", body |-> b, err |-> NoError] : b \in Bodies }
    \cup { [kind |-> "raise", body |-> "", err |-> e] :
             e \in HttpRuntimeErrors \cup HttpOtherErrors }

\* str.lower() on one word of the messages above.
LowerWord(w) ==
    CASE w = "HTTP" -> "http"
      [] w = "URL" -> "url"
      [] w = "Not" -> "not"
      [] w = "Found" -> "found"
      [] w = "Gateway" -> "gateway"
      [] w = "Timeout" -> "timeout"
      [] w = "Network/OS" -> "network/os"
      [] w = "The" -> "the"
      [] OTHER -> w

lower(msg) == [k \in 1..Len(msg) |-> LowerWord(msg[k])]

\* needle in msg, both lists of words.
Contains(msg, needle) ==
    \E k \in 0..(Len(msg) - Len(needle)) :
        SubSeq(msg, k + 1, k + Len(needle)) = needle

\* The test of line 112 without the test of the message: any RuntimeError is
\* tried again while attempts remain.
should_retry_any(e, attempt, max_attempts) ==
    attempt < max_attempts - 1

\* Line 112: the lower-cased message names a timeout and this is not the last
\* attempt.
should_retry(e, attempt, max_attempts) ==
    LET err_msg == lower(e.msg)
    IN  (Contains(err_msg, <<"timed", "out">>)
            \/ Contains(err_msg, <<"timeout">>))
        /\ attempt < max_attempts - 1

\* _parse_chart_json on the bodies above.
parse_chart_json(raw_bytes) ==
    CASE raw_bytes = "rows" -> Return(<<Row(1, 10, 20, 12, 15, 5)>>)
      [] raw_bytes = "no_rows" -> Return(<<>>)
      [] raw_bytes = "bad_json" ->
            Raise(Exception("ValueError", <<"JSON", "decode", "error:">>))

\* max_attempts that fetch_asset_data passes, line 225.
FETCH_MAX_ATTEMPTS == 3

\* fetch_asset_data from the outcome of _do_http_get_with_retry on.
fetch_asset_data_tail(raw) ==
    IF raw.kind = "raise" THEN raw ELSE parse_chart_json(raw.value)

\* Line 251 counting every entry of result, empty or not.
successful_all(result) == Len(result.keys)

\* Line 251: the number of entries of result with a non-empty list.
successful(result) ==
    Cardinality({k \in 1..Len(result.keys) : result.val[result.keys[k]] # <<>>})

\* Lines 252-258.
fetch_multiple_assets_tail(result, min_success) ==
    IF successful(result) < min_success
    THEN Raise(Exception("RuntimeError", <<"Solo", "activos", "descargados">>))
    ELSE Return(result)

\* ---------------------------------------------------------------------
\* etl_pipeline.py
\* ---------------------------------------------------------------------
\* {k: v for k, v in all_assets_data.items() if v}
RECURSIVE filter_nonempty(_, _, _)
filter_nonempty(d, s, out) ==
    IF s > Len(d.keys) THEN out
    ELSE LET k == d.keys[s] IN
         filter_nonempty(d, s + 1,
            IF d.val[k] # <<>> THEN DictSet(out, k, d.val[k]) ELSE out)

\* Body of the cleaning loop of run_etl without the forward fill.
clean_asset_nofill(asset_data) ==
    LET cleaned == remove_invalid_rows(asset_data)
    IN  [missing |-> detect_missing_values(asset_data),
         inconsistencies |-> detect_inconsistencies(asset_data),
         asset_data |-> asset_data,
         cleaned |-> cleaned,
         corrections |-> Len(asset_data) - Len(cleaned)]

\* Body of the cleaning loop of run_etl when the anomalies hold the rows of
\* the list themselves instead of copies: read after the in-place forward
\* fill, each snapshot shows the row as the fill left it.
clean_asset_aliased(asset_data) ==
    LET filled == clean_with_forward_fill(asset_data)
        cleaned == remove_invalid_rows(filled)
        found == detect_inconsistencies(asset_data)
    IN  [missing |-> detect_missing_values(asset_data),
         inconsistencies |->
             [k \in 1..Len(found) |->
                 Anomaly(found[k].index, found[k].type,
                         filled[found[k].index + 1])],
         asset_data |-> filled,
         cleaned |-> cleaned,
         corrections |-> Len(filled) - Len(cleaned)]

\* Body of the cleaning loop of run_etl with remove_invalid_rows called on the
\* list before the forward fill instead of after it.
clean_asset_swapped(asset_data) ==
    LET cleaned == remove_invalid_rows(asset_data)
        filled == clean_with_forward_fill(asset_data)
    IN  [missing |-> detect_missing_values(asset_data),
         inconsistencies |-> detect_inconsistencies(asset_data),
         asset_data |-> filled,
         cleaned |-> cleaned,
         corrections |-> Len(filled) - Len(cleaned)]

\* Body of the cleaning loop of run_etl for one symbol: the two reports on the
\* list as fetched, the list after the in-place forward fill, the cleaned list
\* and the number of rows removed.
clean_asset(asset_data) ==
    LET filled == clean_with_forward_fill(asset_data)
        cleaned == remove_invalid_rows(filled)
    IN  [missing |-> detect_missing_values(asset_data),
         inconsistencies |-> detect_inconsistencies(asset_data),
         asset_data |-> filled,
         cleaned |-> cleaned,
         corrections |-> Len(filled) - Len(cleaned)]

\* ---------------------------------------------------------------------
\* State
\* ---------------------------------------------------------------------
VARIABLES
    pc,                        \* position in run_etl
    all_assets_data,           \* dict symbol -> list of rows
    cleaned_data,              \* dict symbol -> list of rows
    missing_per_asset,         \* dict symbol -> (count, positions)
    inconsistencies_per_asset, \* dict symbol -> list of anomalies
    corrections_applied,       \* dict symbol -> number of rows removed
    master_calendar,           \* list of dates
    aligned_data,              \* dict symbol -> list of rows
    master_dataset,            \* list of master rows
    asset_data,                \* the list a data_cleaner function is called on
    original,                  \* the data as first received, before any call
    call,                      \* name of the function called last
    input,                     \* asset_data on entry to that call
    ret,                       \* value returned by that call
    fpc,                       \* position in data_fetcher
    caller,                    \* who called _do_http_get_with_retry
    max_attempts,              \* its parameter
    attempt,                   \* its loop variable
    last_err,                  \* its last RuntimeError
    http_log,                  \* what each call of _do_http_get did, in order
    retry_ret,                 \* what _do_http_get_with_retry returned or raised
    symbols,                   \* parameter of fetch_multiple_assets
    min_success,               \* parameter of fetch_multiple_assets
    sym_idx,                   \* number of symbols its loop has done
    result,                    \* its dict symbol -> list of rows
    errors,                    \* its list of (symbol, message)
    fetch_log,                 \* what each call of fetch_asset_data did, in order
    fetch_ret                  \* what fetch_multiple_assets returned or raised

vars == <<pc, all_assets_data, cleaned_data, missing_per_asset,
          inconsistencies_per_asset, corrections_applied, master_calendar,
          aligned_data, master_dataset, asset_data, original, call, input, ret,
          fpc, caller, max_attempts, attempt, last_err, http_log, retry_ret,
          symbols, min_success, sym_idx, result, errors, fetch_log, fetch_ret>>

etl_vars == <<pc, cleaned_data, missing_per_asset, inconsistencies_per_asset,
              corrections_applied>>
unifier_vars == <<all_assets_data, master_calendar, aligned_data,
                  master_dataset>>
cleaner_vars == <<asset_data, original, input, ret>>
retry_vars == <<caller, max_attempts, attempt, last_err, http_log, retry_ret>>
multi_vars == <<symbols, min_success, sym_idx, result, errors, fetch_log,
                fetch_ret>>
fetch_vars == <<fpc, retry_vars, multi_vars>>

\* data_fetcher is not running.
FetchIdle ==
    /\ fpc = "idle"
    /\ caller = "none"
    /\ max_attempts = 0
    /\ attempt = 0
    /\ last_err = NoError
    /\ http_log = <<>>
    /\ retry_ret = Pending
    /\ symbols = <<>>
    /\ min_success = 0
    /\ sym_idx = 0
    /\ result = EmptyDict
    /\ errors = <<>>
    /\ fetch_log = <<>>
    /\ fetch_ret = Pending

\* ---------------------------------------------------------------------
\* run_etl, from the return of fetch_multiple_assets to the master dataset
\* ---------------------------------------------------------------------
\* Close prices of the fetched rows.
FetchedPrices == {10, 20}

\* Rows of a fetched list: any date, any Close or None; Open below Low.
FetchedRows ==
    { Row(d, 10, 20, 12, c, 5) : d \in Dates, c \in Nullable(FetchedPrices) }

IsDateOrdered(rows) ==
    \A i \in 1..(Len(rows) - 1) : rows[i].Date <= rows[i + 1].Date

\* Lists of exactly n rows in non-decreasing date order, as the chart API
\* delivers them.
FetchedListsOfLen(n) == {q \in [1..n -> FetchedRows] : IsDateOrdered(q)}

\* The fetched data of the scenario of the specification: A has dates 1, 3
\* with closes 10, 12; B has dates 1, 2 with closes 20, null.
ScenarioData ==
    DictSet(DictSet(EmptyDict, "A",
                    <<Row(1, 10, 20, 12, 10, 5), Row(3, 10, 20, 12, 12, 5)>>),
            "B",
            <<Row(1, 10, 20, 12, 20, 5), Row(2, 10, 20, 12, None, 5)>>)

\* The dict fetch_multiple_assets returned: one entry per symbol of
\* ASSET_SYMBOLS, in that order (an empty list for a symbol that failed), at
\* most MaxFetched rows in all; or the data of the scenario.
Init ==
    /\ \/ \E n \in 0..MaxFetched : \E a \in FetchedListsOfLen(n) :
            \E m \in 0..(MaxFetched - n) : \E b \in FetchedListsOfLen(m) :
               all_assets_data =
                  DictSet(DictSet(EmptyDict, ASSET_SYMBOLS[1], a),
                          ASSET_SYMBOLS[2], b)
       \/ all_assets_data = ScenarioData
    /\ original = all_assets_data
    /\ pc = "filter"
    /\ cleaned_data = EmptyDict
    /\ missing_per_asset = EmptyDict
    /\ inconsistencies_per_asset = EmptyDict
    /\ corrections_applied = EmptyDict
    /\ master_calendar = <<>>
    /\ aligned_data = EmptyDict
    /\ master_dataset = <<>>
    /\ FetchIdle
    /\ asset_data = <<>>
    /\ call = "none"
    /\ input = <<>>
    /\ ret = <<>>

harness_vars == <<asset_data, original, call, input, ret>>

\* Line 98: keep only the symbols with data.
FilterEmpty ==
    /\ pc = "filter"
    /\ all_assets_data' = filter_nonempty(all_assets_data, 1, EmptyDict)
    /\ pc' = "clean"
    /\ UNCHANGED <<cleaned_data, missing_per_asset, inconsistencies_per_asset,
                   corrections_applied, master_calendar, aligned_data,
                   master_dataset, harness_vars, fetch_vars>>

\* Lines 110-122: one iteration of the cleaning loop, for the next symbol in
\* dict order.
CleanAsset ==
    /\ pc = "clean"
    /\ Len(cleaned_data.keys) < Len(all_assets_data.keys)
    /\ LET symbol == all_assets_data.keys[Len(cleaned_data.keys) + 1]
           r == clean_asset(all_assets_data.val[symbol])
       IN  /\ missing_per_asset' = DictSet(missing_per_asset, symbol, r.missing)
           /\ inconsistencies_per_asset' =
                 DictSet(inconsistencies_per_asset, symbol, r.inconsistencies)
           /\ all_assets_data' = DictSet(all_assets_data, symbol, r.asset_data)
           /\ cleaned_data' = DictSet(cleaned_data, symbol, r.cleaned)
           /\ corrections_applied' =
                 DictSet(corrections_applied, symbol, r.corrections)
    /\ UNCHANGED <<pc, master_calendar, aligned_data, master_dataset,
                   harness_vars, fetch_vars>>

\* Line 125 with the calendar built from the filled lists, which still hold
\* the leading rows without a Close, instead of from the cleaned ones.
BuildCalendar_raw ==
    /\ pc = "clean"
    /\ Len(cleaned_data.keys) = Len(all_assets_data.keys)
    /\ master_calendar' = build_master_calendar(all_assets_data)
    /\ pc' = "align"
    /\ UNCHANGED <<all_assets_data, cleaned_data, missing_per_asset,
                   inconsistencies_per_asset, corrections_applied,
                   aligned_data, master_dataset, harness_vars, fetch_vars>>

\* Line 125, once the loop is over.
BuildCalendar ==
    /\ pc = "clean"
    /\ Len(cleaned_data.keys) = Len(all_assets_data.keys)
    /\ master_calendar' = build_master_calendar(cleaned_data)
    /\ pc' = "align"
    /\ UNCHANGED <<all_assets_data, cleaned_data, missing_per_asset,
                   inconsistencies_per_asset, corrections_applied,
                   aligned_data, master_dataset, harness_vars, fetch_vars>>

\* Line 126.
Align ==
    /\ pc = "align"
    /\ aligned_data' = align_assets_to_calendar(cleaned_data, master_calendar)
    /\ pc' = "compose"
    /\ UNCHANGED <<all_assets_data, cleaned_data, missing_per_asset,
                   inconsistencies_per_asset, corrections_applied,
                   master_calendar, master_dataset, harness_vars, fetch_vars>>

\* Line 127.
Compose ==
    /\ pc = "compose"
    /\ master_dataset' = build_master_dataset(aligned_data)
    /\ pc' = "done"
    /\ UNCHANGED <<all_assets_data, cleaned_data, missing_per_asset,
                   inconsistencies_per_asset, corrections_applied,
                   master_calendar, aligned_data, harness_vars, fetch_vars>>

Next ==
    \/ FilterEmpty
    \/ CleanAsset
    \/ BuildCalendar
    \/ Align
    \/ Compose

Spec == Init /\ [][Next]_vars

\* ---------------------------------------------------------------------
\* The data_cleaner functions called on one list, in any order
\* ---------------------------------------------------------------------
\* (Date, Open, High, Low, Volume) of the rows tried; Close is any price or None.
CleanerShapes ==
    { <<1, 1, 2, 1, 5>>,
      <<2, None, None, None, None>>,
      <<None, 2, None, 1, None>>,
      <<1, None, 2, None, 5>> }

CleanerRows ==
    { Row(s[1], s[2], s[3], s[4], c, s[5]) :
        s \in CleanerShapes, c \in Nullable(Prices) }

InitCleaner ==
    /\ asset_data \in SeqUpTo(CleanerRows, MaxLen)
    /\ original = asset_data
    /\ call = "none"
    /\ input = <<>>
    /\ ret = <<>>
    /\ pc = "cleaner"
    /\ all_assets_data = EmptyDict
    /\ cleaned_data = EmptyDict
    /\ missing_per_asset = EmptyDict
    /\ inconsistencies_per_asset = EmptyDict
    /\ corrections_applied = EmptyDict
    /\ master_calendar = <<>>
    /\ aligned_data = EmptyDict
    /\ master_dataset = <<>>
    /\ FetchIdle

CallDetectMissing ==
    /\ call' = "detect_missing_values"
    /\ input' = asset_data
    /\ ret' = detect_missing_values(asset_data)
    /\ UNCHANGED <<asset_data, original, etl_vars, unifier_vars,
                   fetch_vars>>

CallDetectInconsistencies ==
    /\ call' = "detect_inconsistencies"
    /\ input' = asset_data
    /\ ret' = detect_inconsistencies(asset_data)
    /\ UNCHANGED <<asset_data, original, etl_vars, unifier_vars,
                   fetch_vars>>

CallForwardFill ==
    /\ call' = "clean_with_forward_fill"
    /\ input' = asset_data
    /\ asset_data' = clean_with_forward_fill(asset_data)
    /\ ret' = asset_data'
    /\ UNCHANGED <<original, etl_vars, unifier_vars,
                   fetch_vars>>

CallRemoveInvalid ==
    /\ call' = "remove_invalid_rows"
    /\ input' = asset_data
    /\ ret' = remove_invalid_rows(asset_data)
    /\ UNCHANGED <<asset_data, original, etl_vars, unifier_vars,
                   fetch_vars>>

NextCleaner ==
    \/ CallDetectMissing
    \/ CallDetectInconsistencies
    \/ CallForwardFill
    \/ CallRemoveInvalid

SpecCleaner == InitCleaner /\ [][NextCleaner]_vars

\* ---------------------------------------------------------------------
\* detect_inconsistencies called on one list
\* ---------------------------------------------------------------------
Levels == 1..MaxLevel

\* Every row whose Open, High, Low and Close are each a level or None.
GridRows ==
    { Row(1, o, h, l, c, 5) :
        o \in Nullable(Levels), h \in Nullable(Levels),
        l \in Nullable(Levels), c \in Nullable(Levels) }

\* (Open, High, Low, Close) of the rows of the longer lists: the row
\* open=5, high=10, low=6, close=8; a consistent row; High < Low with Open and
\* Close, with Close only and alone; a null High; a Close above High.
InconsistencyShapes ==
    { <<5, 10, 6, 8>>,
      <<7, 10, 6, 8>>,
      <<7, 6, 10, 8>>,
      <<None, 6, 10, 8>>,
      <<None, 6, 10, None>>,
      <<7, None, 6, 8>>,
      <<7, 10, 6, 11>> }

InconsistencyRows ==
    { Row(2, s[1], s[2], s[3], s[4], 5) : s \in InconsistencyShapes }

\* One list: a single row of the grid, or up to MaxLen rows of the shapes.
InitInconsistencies ==
    /\ \/ \E r \in GridRows : asset_data = <<r>>
       \/ \E n \in 0..MaxLen : asset_data \in [1..n -> InconsistencyRows]
    /\ original = asset_data
    /\ call = "none"
    /\ input = <<>>
    /\ ret = <<>>
    /\ pc = "cleaner"
    /\ all_assets_data = EmptyDict
    /\ cleaned_data = EmptyDict
    /\ missing_per_asset = EmptyDict
    /\ inconsistencies_per_asset = EmptyDict
    /\ corrections_applied = EmptyDict
    /\ master_calendar = <<>>
    /\ aligned_data = EmptyDict
    /\ master_dataset = <<>>
    /\ FetchIdle

NextInconsistencies == CallDetectInconsistencies

SpecInconsistencies == InitInconsistencies /\ [][NextInconsistencies]_vars

\* ---------------------------------------------------------------------
\* data_fetcher: _do_http_get_with_retry, alone and under
\* fetch_multiple_assets
\* ---------------------------------------------------------------------
pipeline_vars == <<etl_vars, unifier_vars, harness_vars>>

\* run_etl has not gone past its call of fetch_multiple_assets.
PipelineIdle ==
    /\ pc = "fetch"
    /\ all_assets_data = EmptyDict
    /\ cleaned_data = EmptyDict
    /\ missing_per_asset = EmptyDict
    /\ inconsistencies_per_asset = EmptyDict
    /\ corrections_applied = EmptyDict
    /\ master_calendar = <<>>
    /\ aligned_data = EmptyDict
    /\ master_dataset = <<>>
    /\ asset_data = <<>>
    /\ original = EmptyDict
    /\ call = "none"
    /\ input = <<>>
    /\ ret = <<>>

\* One iteration of the loop of _do_http_get_with_retry, lines 106-115: the
\* call of _do_http_get, and what the function does with its outcome.
RetryAttempt ==
    /\ fpc = "retry"
    /\ attempt < max_attempts
    /\ \E o \in HttpOutcomes :
          /\ http_log' = Append(http_log, o)
          /\ IF o.kind = "return"
             THEN /\ retry_ret' = Return(o.body)
                  /\ fpc' = "retry_done"
                  /\ UNCHANGED last_err
             ELSE IF o.err.type = "RuntimeError"
             THEN /\ last_err' = o.err
                  /\ IF should_retry(o.err, attempt, max_attempts)
                     THEN /\ fpc' = "sleep"
                          /\ UNCHANGED retry_ret
                     ELSE /\ retry_ret' = Raise(o.err)
                          /\ fpc' = "retry_done"
             ELSE /\ retry_ret' = Raise(o.err)
                  /\ fpc' = "retry_done"
                  /\ UNCHANGED last_err
    /\ UNCHANGED <<caller, max_attempts, attempt, multi_vars, pipeline_vars>>

\* Lines 113-114: time.sleep(retry_delay) returns and the loop goes on.
RetrySleep ==
    /\ fpc = "sleep"
    /\ attempt' = attempt + 1
    /\ fpc' = "retry"
    /\ UNCHANGED <<caller, max_attempts, last_err, http_log, retry_ret,
                   multi_vars, pipeline_vars>>

\* Line 116, after the loop: raise last_err, a TypeError when it is None.
RetryExhausted ==
    /\ fpc = "retry"
    /\ attempt >= max_attempts
    /\ retry_ret' =
          Raise(IF last_err = NoError
                THEN Exception("TypeError",
                               <<"exceptions", "must", "derive", "from",
                                 "BaseException">>)
                ELSE last_err)
    /\ fpc' = "retry_done"
    /\ UNCHANGED <<caller, max_attempts, attempt, last_err, http_log,
                   multi_vars, pipeline_vars>>

\* _do_http_get_with_retry called with any max_attempts up to MaxAttempts.
InitRetry ==
    /\ PipelineIdle
    /\ fpc = "retry"
    /\ caller = "none"
    /\ max_attempts \in 0..MaxAttempts
    /\ attempt = 0
    /\ last_err = NoError
    /\ http_log = <<>>
    /\ retry_ret = Pending
    /\ symbols = <<>>
    /\ min_success = 0
    /\ sym_idx = 0
    /\ result = EmptyDict
    /\ errors = <<>>
    /\ fetch_log = <<>>
    /\ fetch_ret = Pending

NextRetry ==
    \/ RetryAttempt
    \/ RetrySleep
    \/ RetryExhausted

SpecRetry == InitRetry /\ [][NextRetry]_vars

\* _do_http_get returns or raises within its timeout, and time.sleep returns.
SpecRetryFair ==
    /\ SpecRetry
    /\ WF_vars(RetryAttempt)
    /\ WF_vars(RetrySleep)
    /\ WF_vars(RetryExhausted)

\* Line 246 and lines 222-225: the loop of fetch_multiple_assets calls
\* fetch_asset_data on the next symbol, which calls _do_http_get_with_retry.
FetchAssetData ==
    /\ fpc = "symbols"
    /\ sym_idx < Len(symbols)
    /\ caller' = "fetch_asset_data"
    /\ max_attempts' = FETCH_MAX_ATTEMPTS
    /\ attempt' = 0
    /\ last_err' = NoError
    /\ http_log' = <<>>
    /\ retry_ret' = Pending
    /\ fpc' = "retry"
    /\ UNCHANGED <<multi_vars, pipeline_vars>>

\* Lines 226-227 and 246-250: fetch_asset_data parses the body or lets the
\* exception through, and the loop stores the rows, or an empty list and the
\* error.
FetchAssetReturn ==
    /\ fpc = "retry_done"
    /\ caller = "fetch_asset_data"
    /\ LET sym == symbols[sym_idx + 1]
           r == fetch_asset_data_tail(retry_ret)
       IN  /\ fetch_log' = Append(fetch_log, [symbol |-> sym, ret |-> r])
           /\ IF r.kind = "return"
              THEN /\ result' = DictSet(result, sym, r.value)
                   /\ UNCHANGED errors
              ELSE /\ result' = DictSet(result, sym, <<>>)
                   /\ errors' = Append(errors, <<sym, r.err.msg>>)
    /\ sym_idx' = sym_idx + 1
    /\ fpc' = "symbols"
    /\ caller' = "none"
    /\ attempt' = 0
    /\ last_err' = NoError
    /\ http_log' = <<>>
    /\ retry_ret' = Pending
    /\ UNCHANGED <<max_attempts, symbols, min_success, fetch_ret,
                   pipeline_vars>>

\* Lines 251-258, after the loop.
FetchMultipleReturn ==
    /\ fpc = "symbols"
    /\ sym_idx = Len(symbols)
    /\ fetch_ret' = fetch_multiple_assets_tail(result, min_success)
    /\ fpc' = "fetch_done"
    /\ UNCHANGED <<retry_vars, symbols, min_success, sym_idx, result, errors,
                   fetch_log, pipeline_vars>>

FetchSymbols == {"A", "B", "C"}

\* The lists of up to n distinct symbols.
SymbolLists(n) ==
    UNION { {q \in [1..m -> FetchSymbols] :
                \A i, j \in 1..m : i # j => q[i] # q[j]} : m \in 0..n }

\* fetch_multiple_assets called on a list of distinct symbols with any
\* min_success up to one more than MaxSymbols.
InitFetch ==
    /\ PipelineIdle
    /\ fpc = "symbols"
    /\ symbols \in SymbolLists(MaxSymbols)
    /\ min_success \in 0..(MaxSymbols + 1)
    /\ sym_idx = 0
    /\ result = EmptyDict
    /\ errors = <<>>
    /\ fetch_log = <<>>
    /\ fetch_ret = Pending
    /\ caller = "none"
    /\ max_attempts = FETCH_MAX_ATTEMPTS
    /\ attempt = 0
    /\ last_err = NoError
    /\ http_log = <<>>
    /\ retry_ret = Pending

NextFetch ==
    \/ FetchAssetData
    \/ RetryAttempt
    \/ RetrySleep
    \/ FetchAssetReturn
    \/ FetchMultipleReturn

SpecFetch == InitFetch /\ [][NextFetch]_vars

\* ---------------------------------------------------------------------
\* The data_unifier functions called on one universe, in any order
\* ---------------------------------------------------------------------
\* (Open, High, Low, Close, Volume) of the dated rows tried.
UnifierShapes ==
    { <<None, None, None, None, None>>,
      <<1, 2, 1, 2, 5>> }

\* The rows tried: any date with either shape, and one row without a date.
UnifierRows ==
    { Row(d, s[1], s[2], s[3], s[4], s[5]) :
        d \in UnifierDates, s \in UnifierShapes }
    \cup { Row(None, 2, 2, 1, 1, 5) }

\* The calendars tried: every ordered list of distinct dates.
Calendars == {sorted_dates(S) : S \in SUBSET UnifierDates}

\* A universe of no, one or both symbols of ASSET_SYMBOLS, inserted in that
\* order, each with a list of rows in any order, at most MaxRows rows in all;
\* and a calendar.
InitUnifier ==
    /\ \/ all_assets_data = EmptyDict
       \/ \E k \in Range(ASSET_SYMBOLS) :
             \E n \in 0..MaxRows : \E a \in [1..n -> UnifierRows] :
                all_assets_data = DictSet(EmptyDict, k, a)
       \/ \E n \in 0..MaxRows : \E a \in [1..n -> UnifierRows] :
             \E m \in 0..(MaxRows - n) : \E b \in [1..m -> UnifierRows] :
                all_assets_data =
                   DictSet(DictSet(EmptyDict, ASSET_SYMBOLS[1], a),
                           ASSET_SYMBOLS[2], b)
    /\ master_calendar \in Calendars
    /\ aligned_data = EmptyDict
    /\ master_dataset = <<>>
    /\ FetchIdle
    /\ call = "none"
    /\ pc = "unifier"
    /\ cleaned_data = EmptyDict
    /\ missing_per_asset = EmptyDict
    /\ inconsistencies_per_asset = EmptyDict
    /\ corrections_applied = EmptyDict
    /\ asset_data = <<>>
    /\ original = <<>>
    /\ input = <<>>
    /\ ret = <<>>

\* The three functions are called in the order run_etl calls them, starting
\* from any of them: the calendar handed to align_assets_to_calendar is the
\* one received or the one built, the mapping handed to build_master_dataset
\* the one aligned.
CallBuildMasterCalendar ==
    /\ call = "none"
    /\ call' = "build_master_calendar"
    /\ master_calendar' = build_master_calendar(all_assets_data)
    /\ UNCHANGED <<all_assets_data, aligned_data, master_dataset, etl_vars,
                   cleaner_vars, fetch_vars>>

CallAlign ==
    /\ call \in {"none", "build_master_calendar"}
    /\ call' = "align_assets_to_calendar"
    /\ aligned_data' = align_assets_to_calendar(all_assets_data, master_calendar)
    /\ UNCHANGED <<all_assets_data, master_calendar, master_dataset, etl_vars,
                   cleaner_vars, fetch_vars>>

CallBuildMasterDataset ==
    /\ call = "align_assets_to_calendar"
    /\ call' = "build_master_dataset"
    /\ master_dataset' = build_master_dataset(aligned_data)
    /\ UNCHANGED <<all_assets_data, master_calendar, aligned_data, etl_vars,
                   cleaner_vars, fetch_vars>>

NextUnifier ==
    \/ CallBuildMasterCalendar
    \/ CallAlign
    \/ CallBuildMasterDataset

SpecUnifier == InitUnifier /\ [][NextUnifier]_vars

\* ---------------------------------------------------------------------
\* Properties of the data_cleaner functions (SpecCleaner)
\* ---------------------------------------------------------------------
Max(S) == CHOOSE x \in S : \A y \in S : y <= x

\* The Close that forward fill owes position i of the list x (1-based i).
FilledClose(x, i) ==
    IF x[i].Close # None THEN x[i].Close
    ELSE LET P == {j \in 1..(i - 1) : x[j].Close # None}
         IN  IF P = {} THEN None ELSE x[Max(P)].Close

\* C3: clean_with_forward_fill returns the same list, same length and order;
\* each Close is its own when non-null, else the Close of the nearest
\* preceding row with a non-null Close, else still null (leading nulls);
\* Date, Open, High, Low and Volume of every row are unchanged.
C3_ForwardFill ==
    call = "clean_with_forward_fill" =>
        /\ ret = asset_data
        /\ Len(asset_data) = Len(input)
        /\ \A i \in 1..Len(input) :
              /\ asset_data[i].Close = FilledClose(input, i)
              /\ asset_data[i].Date = input[i].Date
              /\ asset_data[i].Open = input[i].Open
              /\ asset_data[i].High = input[i].High
              /\ asset_data[i].Low = input[i].Low
              /\ asset_data[i].Volume = input[i].Volume

\* A leading null Close stays null and a later null Close, in a row whose
\* Open is null too, is filled from the row before it.
C3_Witness ==
    /\ call = "clean_with_forward_fill"
    /\ Len(input) = 3
    /\ input[1].Close = None /\ asset_data[1].Close = None
    /\ input[2].Close # None
    /\ input[3].Close = None /\ input[3].Open = None
    /\ asset_data[3].Close = input[2].Close
    /\ asset_data[3].Open = None

\* C4: clean_with_forward_fill is idempotent: called on a list that the
\* previous call of clean_with_forward_fill returned, it leaves it as it is.
C4_Idempotent ==
    [][(call = "clean_with_forward_fill" /\ call' = "clean_with_forward_fill")
          => (asset_data' = asset_data /\ ret' = ret)]_vars

\* A second application: the list passed in had already been filled (it
\* differs from the list first received) and comes back the same.
C4_Witness ==
    /\ call = "clean_with_forward_fill"
    /\ input # original
    /\ input = clean_with_forward_fill(original)
    /\ asset_data = input

\* The n-th smallest element of the set of indices K.
Nth(K, n) == CHOOSE i \in K : Cardinality({j \in K : j <= i}) = n

\* C5: remove_invalid_rows returns a new list holding exactly the rows of the
\* input whose Close is non-null, in their original order (null Open, High,
\* Low or Volume do not matter), and leaves the input list as it was.
C5_RemoveInvalid ==
    call = "remove_invalid_rows" =>
        LET K == {i \in 1..Len(input) : input[i].Close # None}
        IN  /\ Len(ret) = Cardinality(K)
            /\ \A n \in 1..Len(ret) : ret[n] = input[Nth(K, n)]
            /\ asset_data = input

\* A row with null Close is dropped and a row with a Close but no Open is kept.
C5_Witness ==
    /\ call = "remove_invalid_rows"
    /\ \E i \in 1..Len(input) : input[i].Close = None
    /\ \E i \in 1..Len(input) : input[i].Close # None /\ input[i].Open = None
    /\ Len(ret) = 2
    /\ Len(asset_data) = 3

\* The null cells of the list x, as (row, key) pairs.
NullCells(x) ==
    {c \in (1..Len(x)) \X Range(NUMERIC_KEYS) : x[c[1]][c[2]] = None}

\* C10: detect_missing_values returns (count, positions): count is the number
\* of null cells among Open, High, Low, Close and Volume over all rows;
\* positions is the strictly increasing list of exactly the (0-based) indices
\* of the rows with at least one null among them; so len(positions) <=
\* len(series), len(positions) <= count <= 5 * len(positions), and the empty
\* list gives (0, []).
C10_DetectMissing ==
    call = "detect_missing_values" =>
        LET count == ret[1]
            positions == ret[2]
        IN  /\ Len(ret) = 2
            /\ count = Cardinality(NullCells(input))
            /\ \A a, b \in 1..Len(positions) :
                  a < b => positions[a] < positions[b]
            /\ Range(positions) = {c[1] - 1 : c \in NullCells(input)}
            /\ Len(positions) <= Len(input)
            /\ Len(positions) <= count
            /\ count <= 5 * Len(positions)
            /\ (input = <<>> => ret = <<0, <<>>>>)
            /\ asset_data = input

\* Two rows with missing cells, one of them with several, and one row without.
C10_Witness ==
    /\ call = "detect_missing_values"
    /\ Len(input) = 3
    /\ Len(ret[2]) = 2
    /\ ret[1] > 2

\* ---------------------------------------------------------------------
\* Properties of the data_unifier functions (SpecUnifier)
\* ---------------------------------------------------------------------
Symbols(d) == Range(d.keys)

\* The non-null dates of the rows of one list.
DatesOf(rows) == {rows[j].Date : j \in 1..Len(rows)} \ {None}

StrictlyIncreasing(q) == \A a, b \in 1..Len(q) : a < b => q[a] < q[b]

Reverse(q) == [i \in 1..Len(q) |-> q[Len(q) + 1 - i]]

\* The universe u with its symbols and the rows of every list in reverse order.
ReverseUniverse(u) ==
    [keys |-> Reverse(u.keys),
     val  |-> [k \in DOMAIN u.val |-> Reverse(u.val[k])]]

\* C1: align_assets_to_calendar returns, for every symbol of the universe, a
\* list as long as the master calendar whose i-th row has the i-th calendar
\* date as its Date.
C1_AlignedToCalendar ==
    call = "align_assets_to_calendar" =>
        /\ Symbols(aligned_data) = Symbols(all_assets_data)
        /\ \A symbol \in Symbols(all_assets_data) :
              /\ Len(aligned_data.val[symbol]) = Len(master_calendar)
              /\ \A i \in 1..Len(master_calendar) :
                    aligned_data.val[symbol][i].Date = master_calendar[i]

\* Two symbols aligned to a calendar of two entries, one of them a date that
\* one symbol has no row for.
C1_Witness ==
    /\ call = "align_assets_to_calendar"
    /\ Cardinality(Symbols(all_assets_data)) = 2
    /\ Len(master_calendar) = 2
    /\ \E symbol \in Symbols(all_assets_data) :
          /\ master_calendar[1] \notin DatesOf(all_assets_data.val[symbol])
          /\ master_calendar[2] \in DatesOf(all_assets_data.val[symbol])
          /\ Len(aligned_data.val[symbol]) = 2

\* C6: build_master_calendar returns a strictly increasing list (so without
\* duplicates) whose elements are exactly the non-null dates of all rows of
\* all assets, whatever the order of the symbols and of the rows.
C6_MasterCalendar ==
    call = "build_master_calendar" =>
        /\ StrictlyIncreasing(master_calendar)
        /\ Range(master_calendar) =
              UNION {DatesOf(all_assets_data.val[symbol]) :
                        symbol \in Symbols(all_assets_data)}
        /\ \A symbol \in Symbols(all_assets_data) :
              DatesOf(all_assets_data.val[symbol]) \subseteq Range(master_calendar)
        /\ build_master_calendar(ReverseUniverse(all_assets_data))
              = master_calendar

\* Two symbols, the first with a date the second lacks, rows out of date
\* order or with a null date, and a calendar of two dates.
C6_Witness ==
    /\ call = "build_master_calendar"
    /\ Len(all_assets_data.keys) = 2
    /\ Len(master_calendar) = 2
    /\ DatesOf(all_assets_data.val[all_assets_data.keys[1]])
          # DatesOf(all_assets_data.val[all_assets_data.keys[2]])
    /\ DatesOf(all_assets_data.val[all_assets_data.keys[2]]) # {}
    /\ \E symbol \in Symbols(all_assets_data) :
          \E j \in 1..Len(all_assets_data.val[symbol]) :
             all_assets_data.val[symbol][j].Date = None

\* C7: the row align_assets_to_calendar puts at calendar index i for a symbol
\* equals, field for field, the last row of the symbol's list whose Date is
\* the i-th calendar date; when the list has no such row it is the
\* placeholder with that Date and null Open, High, Low, Close and Volume.
C7_AlignedRows ==
    call = "align_assets_to_calendar" =>
        \A symbol \in Symbols(all_assets_data) :
           \A i \in 1..Len(master_calendar) :
              LET rows == all_assets_data.val[symbol]
                  M == {j \in 1..Len(rows) : rows[j].Date = master_calendar[i]}
                  got == aligned_data.val[symbol][i]
              IN  IF M = {}
                  THEN got = [Date |-> master_calendar[i], Open |-> None,
                              High |-> None, Low |-> None, Close |-> None,
                              Volume |-> None]
                  ELSE got = rows[Max(M)]

\* A symbol with two different rows of the same date, which is in the
\* calendar, next to a calendar date the symbol has no row for.
C7_Witness ==
    /\ call = "align_assets_to_calendar"
    /\ Len(master_calendar) = 2
    /\ \E symbol \in Symbols(all_assets_data) :
          LET rows == all_assets_data.val[symbol] IN
          /\ Len(rows) >= 2
          /\ rows[1].Date = master_calendar[1]
          /\ rows[2].Date = master_calendar[1]
          /\ rows[1] # rows[2]
          /\ aligned_data.val[symbol][1] = rows[2]
          /\ master_calendar[2] \notin DatesOf(rows)
          /\ aligned_data.val[symbol][2].Close = None

\* aligned_data is a mapping of lists aligned to one calendar of n dates.
IsAligned(d, n) ==
    /\ \A symbol \in Symbols(d) : Len(d.val[symbol]) = n
    /\ \A a, b \in Symbols(d) :
          \A i \in 1..n : d.val[a][i].Date = d.val[b][i].Date

\* C8: build_master_dataset returns the empty table for the empty mapping;
\* for a non-empty mapping of lists aligned to one calendar of n dates it
\* returns n rows in calendar order, each with the Date of its calendar index
\* and exactly one "<symbol>_Close" key per symbol of the mapping.
C8_MasterDataset ==
    call = "build_master_dataset" =>
        /\ aligned_data.keys = <<>> => master_dataset = <<>>
        /\ aligned_data.keys # <<>> =>
              LET n == Len(aligned_data.val[aligned_data.keys[1]]) IN
              IsAligned(aligned_data, n) =>
                 /\ Len(master_dataset) = n
                 /\ \A i \in 1..n :
                       /\ DOMAIN master_dataset[i] =
                             {"Date"} \cup {symbol \o "_Close" :
                                              symbol \in Symbols(aligned_data)}
                       /\ Cardinality(DOMAIN master_dataset[i] \ {"Date"})
                             = Cardinality(Symbols(aligned_data))
                       /\ \A symbol \in Symbols(aligned_data) :
                             master_dataset[i].Date =
                                aligned_data.val[symbol][i].Date

\* A table of two rows and two Close columns.
C8_Witness ==
    /\ call = "build_master_dataset"
    /\ Cardinality(Symbols(aligned_data)) = 2
    /\ IsAligned(aligned_data, 2)
    /\ Len(master_dataset) = 2
    /\ DOMAIN master_dataset[1] = {"Date", "A_Close", "B_Close"}

\* ---------------------------------------------------------------------
\* Properties of run_etl (Spec)
\* ---------------------------------------------------------------------
\* C2: an asset with no usable row after cleaning does not halt the pipeline
\* and is absent from the master calendar's union and from the master
\* table's columns: every row of the table has exactly one "<symbol>_Close"
\* key per symbol whose cleaned list is non-empty and none for a symbol
\* whose cleaned list is empty.
C2_EmptyAssetAbsent ==
    pc = "done" =>
        /\ Range(master_calendar) =
              UNION {DatesOf(cleaned_data.val[symbol]) :
                        symbol \in {k \in Symbols(cleaned_data) :
                                       cleaned_data.val[k] # <<>>}}
        /\ \A i \in 1..Len(master_dataset) :
              DOMAIN master_dataset[i] =
                 {"Date"} \cup {symbol \o "_Close" :
                                  symbol \in {k \in Symbols(cleaned_data) :
                                                 cleaned_data.val[k] # <<>>}}

\* The Close the master table owes symbol on date d, from the list x as
\* fetched: the forward-filled Close of the last row of date d that has one.
ExpectedClose(x, d) ==
    LET M == {j \in 1..Len(x) : x[j].Date = d /\ FilledClose(x, j) # None}
    IN  IF M = {} THEN None ELSE FilledClose(x, Max(M))

\* C9: end to end, for fetched lists ordered by date, the master table has
\* one row per master-calendar date in increasing date order, and in the row
\* of date d the key "<symbol>_Close" holds the forward-filled Close of the
\* symbol's cleaned row of date d, or null when it has none.  For the
\* scenario the calendar is 1, 2, 3, B_Close on date 2 is 20, A_Close on date
\* 2 is null, and the table has three rows with columns A_Close and B_Close.
C9_EndToEnd ==
    (pc = "done"
       /\ \A symbol \in Symbols(original) : IsDateOrdered(original.val[symbol])) =>
        /\ Len(master_dataset) = Len(master_calendar)
        /\ StrictlyIncreasing(master_calendar)
        /\ \A i \in 1..Len(master_calendar) :
              /\ master_dataset[i].Date = master_calendar[i]
              /\ \A symbol \in Symbols(all_assets_data) :
                    master_dataset[i][symbol \o "_Close"] =
                       ExpectedClose(original.val[symbol], master_calendar[i])
        /\ original = ScenarioData =>
              /\ master_calendar = <<1, 2, 3>>
              /\ master_dataset =
                    << [Date |-> 1, A_Close |-> 10, B_Close |-> 20],
                       [Date |-> 2, A_Close |-> None, B_Close |-> 20],
                       [Date |-> 3, A_Close |-> 12, B_Close |-> None] >>

\* The scenario has run to the master table.
C9_Witness ==
    /\ pc = "done"
    /\ original = ScenarioData
    /\ Len(master_dataset) = 3
    /\ master_dataset[2].B_Close = 20


\* ---------------------------------------------------------------------
\* detect_inconsistencies
\* ---------------------------------------------------------------------
\* The anomalies of the returned list whose index is i, in list order.
AnomaliesAt(anomalies, i) ==
    SelectSeq(anomalies, LAMBDA a : a.index = i)

Reported(anomalies, i, type) ==
    \E k \in 1..Len(anomalies) :
        anomalies[k].index = i /\ anomalies[k].type = type

HasLowHigh(row) == row.Low # None /\ row.High # None

Outside(x, row) == x # None /\ (x < row.Low \/ x > row.High)

\* C11: detect_inconsistencies reports High_less_than_Low with index i exactly
\* when the record at position i has non-null High and Low with High < Low;
\* no such anomaly carries an index that is not a position of the list.
C11_HighLessThanLow ==
    call = "detect_inconsistencies" =>
        /\ \A i \in 0..(Len(input) - 1) :
               Reported(ret, i, "High_less_than_Low")
                   <=> (HasLowHigh(input[i + 1])
                        /\ input[i + 1].High < input[i + 1].Low)
        /\ \A k \in 1..Len(ret) :
               ret[k].type = "High_less_than_Low"
                   => ret[k].index \in 0..(Len(input) - 1)

\* A list with one record that has High < Low and one that has High >= Low.
C11_Witness ==
    /\ call = "detect_inconsistencies"
    /\ \E i, j \in 0..(Len(input) - 1) :
           /\ Reported(ret, i, "High_less_than_Low")
           /\ HasLowHigh(input[j + 1])
           /\ input[j + 1].High >= input[j + 1].Low
           /\ ~Reported(ret, j, "High_less_than_Low")

\* C12: at a position with non-null Low and High, Close_outside_Low_High_range
\* is reported exactly when Close is non-null and below Low or above High, and
\* Open_outside_Low_High_range exactly when Open is non-null and below Low or
\* above High; a position with a null Low or High has no anomaly; the record
\* open=5, high=10, low=6, close=8 has exactly one, Open_outside_Low_High_range.
C12_RangeChecks ==
    call = "detect_inconsistencies" =>
        \A i \in 0..(Len(input) - 1) :
            LET row == input[i + 1] IN
            /\ HasLowHigh(row) =>
                  /\ Reported(ret, i, "Close_outside_Low_High_range")
                         <=> Outside(row.Close, row)
                  /\ Reported(ret, i, "Open_outside_Low_High_range")
                         <=> Outside(row.Open, row)
            /\ ~HasLowHigh(row) => AnomaliesAt(ret, i) = <<>>
            /\ (row.Open = 5 /\ row.High = 10 /\ row.Low = 6 /\ row.Close = 8)
                  => /\ Len(AnomaliesAt(ret, i)) = 1
                     /\ AnomaliesAt(ret, i)[1].type
                            = "Open_outside_Low_High_range"

\* A list holding the record open=5, high=10, low=6, close=8, a record with a
\* null High and a record whose Close is above High.
C12_Witness ==
    /\ call = "detect_inconsistencies"
    /\ \E i, j, k \in 0..(Len(input) - 1) :
           /\ input[i + 1].Open = 5 /\ input[i + 1].High = 10
           /\ input[i + 1].Low = 6 /\ input[i + 1].Close = 8
           /\ Reported(ret, i, "Open_outside_Low_High_range")
           /\ input[j + 1].High = None
           /\ AnomaliesAt(ret, j) = <<>>
           /\ Reported(ret, k, "Close_outside_Low_High_range")
           /\ ~Reported(ret, k, "Open_outside_Low_High_range")

NonNullCount(row) ==
    (IF row.Open # None THEN 1 ELSE 0) + (IF row.Close # None THEN 1 ELSE 0)

TypeRank(type) ==
    CASE type = "High_less_than_Low" -> 1
      [] type = "Close_outside_Low_High_range" -> 2
      [] type = "Open_outside_Low_High_range" -> 3

\* C18: where High_less_than_Low is reported, Close_outside_Low_High_range is
\* reported whenever Close is non-null and Open_outside_Low_High_range whenever
\* Open is non-null, so that position has 1 + (number of non-null fields among
\* Open and Close) anomalies; the returned list is in non-decreasing index
\* order and, within one index, in the order High_less_than_Low,
\* Close_outside_Low_High_range, Open_outside_Low_High_range.
C18_DependentChecks ==
    call = "detect_inconsistencies" =>
        /\ \A i \in 0..(Len(input) - 1) :
               Reported(ret, i, "High_less_than_Low") =>
                   /\ input[i + 1].Close # None
                          => Reported(ret, i, "Close_outside_Low_High_range")
                   /\ input[i + 1].Open # None
                          => Reported(ret, i, "Open_outside_Low_High_range")
                   /\ Len(AnomaliesAt(ret, i)) = 1 + NonNullCount(input[i + 1])
        /\ \A k \in 1..(Len(ret) - 1) :
               \/ ret[k].index < ret[k + 1].index
               \/ /\ ret[k].index = ret[k + 1].index
                  /\ TypeRank(ret[k].type) < TypeRank(ret[k + 1].type)

\* A list with High < Low at a record with Open and Close (three anomalies),
\* at a record with neither (one anomaly), and anomalies at two indexes.
C18_Witness ==
    /\ call = "detect_inconsistencies"
    /\ \E i, j \in 0..(Len(input) - 1) :
           /\ i < j
           /\ Reported(ret, i, "High_less_than_Low")
           /\ Reported(ret, j, "High_less_than_Low")
           /\ {Len(AnomaliesAt(ret, i)), Len(AnomaliesAt(ret, j))} = {1, 3}


\* ---------------------------------------------------------------------
\* run_etl: the anomaly snapshots and the forward fill
\* ---------------------------------------------------------------------
\* C13: once run_etl has cleaned a symbol, the row stored in each anomaly of
\* the symbol equals the record at the anomaly's index as it was fetched,
\* before the forward fill (a snapshot taken with a null Close still has a
\* null Close), and the symbol's list differs from the fetched one only by
\* the Close values the forward fill wrote.
C13_SnapshotNotAliased ==
    \A symbol \in Symbols(inconsistencies_per_asset) :
        LET fetched == original.val[symbol]
            anomalies == inconsistencies_per_asset.val[symbol]
            filled == all_assets_data.val[symbol]
        IN  /\ \A k \in 1..Len(anomalies) :
                  /\ anomalies[k].index \in 0..(Len(fetched) - 1)
                  /\ anomalies[k].row = fetched[anomalies[k].index + 1]
            /\ Len(filled) = Len(fetched)
            /\ \A i \in 1..Len(fetched) :
                  filled[i] =
                      [fetched[i] EXCEPT !.Close = FilledClose(fetched, i)]

\* A cleaned symbol with an anomaly whose snapshot has a null Close at a
\* position where the forward fill has since written a Close.
C13_Witness ==
    \E symbol \in Symbols(inconsistencies_per_asset) :
        \E k \in 1..Len(inconsistencies_per_asset.val[symbol]) :
            LET a == inconsistencies_per_asset.val[symbol][k] IN
            /\ a.row.Close = None
            /\ all_assets_data.val[symbol][a.index + 1].Close # None


\* ---------------------------------------------------------------------
\* run_etl: rows removed by the cleaning, and the rows of the master table
\* ---------------------------------------------------------------------
\* The number of rows of x before the first one with a non-null Close.
LeadingRun(x) ==
    LET P == {j \in 1..Len(x) : x[j].Close # None}
    IN  IF P = {} THEN Len(x) ELSE (CHOOSE j \in P : \A m \in P : j <= m) - 1

\* C16: for every symbol run_etl has cleaned, the cleaned list is the
\* forward-filled fetched list without its leading run of rows before the
\* first originally non-null Close (empty when no row has a Close), every
\* later row is kept in order, and the reported number of rows removed is the
\* length of that leading run.
C16_LeadingRunRemoved ==
    \A symbol \in Symbols(cleaned_data) :
        LET fetched == original.val[symbol]
            cleaned == cleaned_data.val[symbol]
            lead == LeadingRun(fetched)
        IN  /\ Len(cleaned) = Len(fetched) - lead
            /\ \A j \in 1..Len(cleaned) :
                  cleaned[j] =
                      [fetched[lead + j]
                          EXCEPT !.Close = FilledClose(fetched, lead + j)]
            /\ cleaned =
                  SubSeq(all_assets_data.val[symbol], lead + 1, Len(fetched))
            /\ corrections_applied.val[symbol] = lead

\* A cleaned symbol that lost one leading row and kept two, the second of
\* them fetched without a Close.
C16_Witness ==
    \E symbol \in Symbols(cleaned_data) :
        /\ corrections_applied.val[symbol] = 1
        /\ Len(cleaned_data.val[symbol]) = 2
        /\ original.val[symbol][3].Close = None

\* C17: every row of the master table run_etl builds has a non-null
\* "<symbol>_Close" value for at least one symbol, also when a fetched list
\* holds several rows of one date.
C17_NoAllNullRow ==
    pc = "done" =>
        \A i \in 1..Len(master_dataset) :
            \E symbol \in Symbols(cleaned_data) :
                master_dataset[i][symbol \o "_Close"] # None

\* A master table built from a list with two rows of one date, the first of
\* them removed by the cleaning, that has a row with a null close column.
C17_Witness ==
    /\ pc = "done"
    /\ \E symbol \in Symbols(original) :
          LET fetched == original.val[symbol] IN
          /\ Len(fetched) >= 2
          /\ fetched[1].Date = fetched[2].Date
          /\ fetched[1].Close = None
          /\ fetched[2].Close # None
    /\ \E i \in 1..Len(master_dataset) :
          \E symbol \in Symbols(cleaned_data) :
              master_dataset[i][symbol \o "_Close"] = None


\* ---------------------------------------------------------------------
\* _do_http_get_with_retry
\* ---------------------------------------------------------------------
\* The message holds "timed out" or "timeout", letter for letter.
NamesTimeout(msg) ==
    Contains(msg, <<"timed", "out">>) \/ Contains(msg, <<"timeout">>)

\* What _do_http_get_with_retry has done so far, given which messages count
\* as naming a timeout: at most max_attempts calls of _do_http_get; every call
\* that was followed by another one, or by the sleep before another one,
\* failed with a timeout message while fewer than max_attempts calls had been
\* made; and once the function is over, it returned the body of its last call
\* if that call succeeded and raised the error of its last call if it failed.
RetryBehaviour(IsTimeout(_)) ==
    LET n == Len(http_log) IN
    /\ n <= max_attempts
    /\ \A k \in 1..(n - 1) :
          /\ http_log[k].kind = "raise"
          /\ IsTimeout(http_log[k].err.msg)
          /\ k < max_attempts
    /\ fpc = "sleep" =>
          /\ http_log[n].kind = "raise"
          /\ IsTimeout(http_log[n].err.msg)
          /\ n < max_attempts
    /\ (fpc = "retry_done" /\ n > 0) =>
          /\ http_log[n].kind = "return" =>
                retry_ret.kind = "return" /\ retry_ret.value = http_log[n].body
          /\ http_log[n].kind = "raise" =>
                retry_ret.kind = "raise" /\ retry_ret.err = http_log[n].err

LowerNamesTimeout(msg) == NamesTimeout(lower(msg))

NotRaised(r) == r.kind = "return"

\* The fetch of one symbol did not raise and returned at least one row.
WithRows(r) == r.kind = "return" /\ r.value # <<>>

\* What fetch_multiple_assets has done so far, given which fetches count as
\* downloaded: fetch_asset_data was called on the symbols in the given order,
\* whatever the earlier calls did; a symbol whose fetch raised has an empty
\* list in result and any other has the rows returned; nothing is returned or
\* raised before every symbol was tried; and then the function raises exactly
\* when fewer than min_success fetches count as downloaded, and otherwise
\* returns result, with one entry per symbol.
FetchBehaviour(Downloaded(_)) ==
    LET n == Len(fetch_log) IN
    /\ n = sym_idx
    /\ n <= Len(symbols)
    /\ \A k \in 1..n :
          /\ fetch_log[k].symbol = symbols[k]
          /\ HasKey(result, symbols[k])
          /\ fetch_log[k].ret.kind = "raise" => result.val[symbols[k]] = <<>>
          /\ fetch_log[k].ret.kind = "return" =>
                result.val[symbols[k]] = fetch_log[k].ret.value
    /\ fetch_ret.kind # "none" => fpc = "fetch_done"
    /\ fpc = "fetch_done" =>
          /\ n = Len(symbols)
          /\ fetch_ret.kind \in {"raise", "return"}
          /\ fetch_ret.kind = "raise" <=>
                Cardinality({k \in 1..n : Downloaded(fetch_log[k].ret)})
                    < min_success
          /\ fetch_ret.kind = "return" =>
                /\ fetch_ret.value = result
                /\ result.keys = symbols

====
